---- MODULE Spec2Model ----
(***************************************************************************)
(* Moderation surface of photoapp: the user table, the manage_user route   *)
(* (ban / activate / change_role) and the repository functions it calls.   *)
(* A request handler is one action; the calls it makes to the store and to *)
(* the cache are recorded, in order, in the trace of the request.          *)
(* Spec runs the user routes, SpecConc interleaves ban requests at their   *)
(* await points, SpecCreate interleaves create_user calls, SpecAuth runs   *)
(* update_token and confirmed_email, SpecTokens runs the invalid-token     *)
(* table, SpecRatings the rating routes, SpecRatingsConc interleaves       *)
(* rating creations, and SpecTags runs the tag routes.                     *)
(***************************************************************************)
EXTENDS Integers, Sequences, FiniteSets, TLC

\* ------------------------------------------------------------------ bounds
NumUsers == 2

UserIds == 1..NumUsers

\* ban requests in flight at the same time
NumRequests == 2

ReqIds == 1..NumRequests

NumTokens == 3

Tokens == 1..NumTokens

NumRaters == 1

RaterIds == 1..NumRaters

NumPictures == 1

PictureIds == 1..NumPictures

\* create_user calls made in one run
NumCreateCalls == 3

\* distinct non-empty refresh tokens a login can hand to update_token
NumRefreshTokens == 2

\* distinct tag names a request can carry
NumTagNames == 2

TagNames == 1..NumTagNames

\* tag ids the store hands out before the run ends
MaxTagId == 3

TagIds == 1..MaxTagId

\* ------------------------------------------------------------ enumerations
\* src.database.models.Role, as used by the routes
Roles == {"admin", "moderator", "user"}

\* src.schemas.users.Action, as used by manage_user
Actions == {"ban", "activate", "change_role"}

\* the query parameter `role` left out of the request
Omitted == "omitted"

\* Python's None, where a user row is expected
None == 0

\* Python's None, where a Role is expected
NoneRole == "None"

\* a refresh token value: Python's None, or a str given by its characters
NoneToken == [isNone |-> TRUE, chars |-> <<>>]

Str(chars) == [isNone |-> FALSE, chars |-> chars]

RefreshTokens == {Str(<<c>>) : c \in 1..NumRefreshTokens}

\* ------------------------------------------------------------ identities
Username(u) == <<"username", u>>

Email(u) == <<"email", u>>

Usernames == {Username(u) : u \in UserIds}

\* the username field of a record that names no request
NoUsername == Username(0)

key_to_clear_by_username(email) == <<"user:", <<"username", email[2]>>>>

\* f"user:{user_action.email}"
key_to_clear(email) == <<"user:", email>>

\* ------------------------------------------------------------------ state
VARIABLES registered, roles, is_active, confirmed, refresh_token, last, reqs,
          creqs, invalid_tokens, revoked, ratings, rreqs, tags

vars == <<registered, roles, is_active, confirmed, refresh_token, last, reqs,
          creqs, invalid_tokens, revoked, ratings, rreqs, tags>>

userVars == <<registered, roles, is_active, confirmed, refresh_token>>

tokenVars == <<invalid_tokens, revoked>>

ratingVars == <<ratings, rreqs>>

\* the user table as one value, handed to the repository functions
Db ==
  [registered |-> registered, roles |-> roles, is_active |-> is_active,
   confirmed |-> confirmed, refresh_token |-> refresh_token]

NoRequest ==
  [op |-> "none", actor |-> None, actor_roles |-> "user", target |-> None,
   username |-> NoUsername, action |-> "none", roleq |-> Omitted,
   pre_active |-> FALSE, pre_roles |-> "user",
   post_active |-> FALSE, post_roles |-> "user",
   status |-> 0, detail |-> "", trace |-> <<>>]

\* ------------------------------------------------------ repository: users
get_user_by_email(db, email) ==
  IF \E u \in db.registered : Email(u) = email
  THEN CHOOSE u \in db.registered : Email(u) = email
  ELSE None

get_user_username_first_row(db, username) ==
  IF \E u \in db.registered : Username(u) = username
  THEN CHOOSE u \in db.registered : Username(u) = username
  ELSE IF db.registered # {} THEN CHOOSE u \in db.registered : TRUE
  ELSE None

\* select(User).filter(User.username == username); scalar_one_or_none()
get_user_username(db, username) ==
  IF \E u \in db.registered : Username(u) = username
  THEN CHOOSE u \in db.registered : Username(u) = username
  ELSE None

CommitOrRollback_keeps_staged(db, staged, commitOk) ==
  IF commitOk
  THEN [db |-> staged, raised |-> FALSE, events |-> <<[ev |-> "commit"]>>]
  ELSE [db |-> staged, raised |-> TRUE,
        events |-> <<[ev |-> "commit_failed"], [ev |-> "rollback"]>>]

\* db.commit() of one staged attribute change; a failed commit is followed
\* by db.rollback() and the store keeps the committed row
CommitOrRollback(db, staged, commitOk) ==
  IF commitOk
  THEN [db |-> staged, raised |-> FALSE, events |-> <<[ev |-> "commit"]>>]
  ELSE [db |-> db, raised |-> TRUE,
        events |-> <<[ev |-> "commit_failed"], [ev |-> "rollback"]>>]

ban_user_no_write(db, email, commitOk) ==
  LET user == get_user_by_email(db, email)
  IN IF user # None
     THEN LET c == CommitOrRollback(db, db, commitOk)
          IN [db |-> c.db, user |-> user, raised |-> c.raised, events |-> c.events]
     ELSE [db |-> db, user |-> None, raised |-> FALSE, events |-> <<>>]

ban_user_resets_role(db, email, commitOk) ==
  LET user == get_user_by_email(db, email)
  IN IF user # None
     THEN LET staged == [db EXCEPT !.is_active[user] = FALSE, !.roles[user] = "user"]
              c == CommitOrRollback(db, staged, commitOk)
          IN [db |-> c.db, user |-> user, raised |-> c.raised, events |-> c.events]
     ELSE [db |-> db, user |-> None, raised |-> FALSE, events |-> <<>>]

\* user.is_active = False; commit
ban_user(db, email, commitOk) ==
  LET user == get_user_by_email(db, email)
  IN IF user # None
     THEN LET staged == [db EXCEPT !.is_active[user] = FALSE]
              c == CommitOrRollback(db, staged, commitOk)
          IN [db |-> c.db, user |-> user, raised |-> c.raised, events |-> c.events]
     ELSE [db |-> db, user |-> None, raised |-> FALSE, events |-> <<>>]

activate_user_wrong_flag(db, email, commitOk) ==
  LET user == get_user_by_email(db, email)
  IN IF user # None
     THEN LET staged == [db EXCEPT !.is_active[user] = FALSE]
              c == CommitOrRollback(db, staged, commitOk)
          IN [db |-> c.db, user |-> user, raised |-> c.raised, events |-> c.events]
     ELSE [db |-> db, user |-> None, raised |-> FALSE, events |-> <<>>]

activate_user(db, email, commitOk) ==
  LET user == get_user_by_email(db, email)
  IN IF user # None
     THEN LET staged == [db EXCEPT !.is_active[user] = TRUE]
              c == CommitOrRollback(db, staged, commitOk)
          IN [db |-> c.db, user |-> user, raised |-> c.raised, events |-> c.events]
     ELSE [db |-> db, user |-> None, raised |-> FALSE, events |-> <<>>]

\* repository_users.change_role: the target's role becomes the new role
change_role(db, email, role, commitOk) ==
  LET user == get_user_by_email(db, email)
  IN IF user # None
     THEN LET staged == [db EXCEPT !.roles[user] = role]
              c == CommitOrRollback(db, staged, commitOk)
          IN [db |-> c.db, user |-> user, raised |-> c.raised, events |-> c.events]
     ELSE [db |-> db, user |-> None, raised |-> FALSE, events |-> <<>>]

\* ---------------------------------------------------- route: manage_user
\* Python's `a or b` on enum members: every member of Role is truthy
PyOr(a, b) == IF a # NoneRole THEN a ELSE b

\* role: Role = Role.user  -- the query parameter and its default
BindRole(roleq) == IF roleq = Omitted THEN "user" ELSE roleq

SameUser_never(target, current_user) == FALSE

\* user_action.username == current_user.username
SameUser(target, current_user) == Username(target) = Username(current_user)

\* current_user.roles == (Role.admin or Role.moderator)
BanPermitted(current_roles) == current_roles = PyOr("admin", "moderator")

ActivatePermitted_anyone(current_roles) == TRUE

\* current_user.roles == Role.admin   (activate)
ActivatePermitted(current_roles) == current_roles = "admin"

ChangeRolePermitted_anyone(current_roles) == TRUE

\* current_user.roles == Role.admin   (change_role)
ChangeRolePermitted(current_roles) == current_roles = "admin"

Reply(db, status, detail, trace) ==
  [db |-> db, status |-> status, detail |-> detail, trace |-> trace]

\* the result of a repository call that staged one change: the handler
\* returns 200 with `detail`, or the exception of the failed commit escapes
AfterRepository(r, detail, trace) ==
  IF r.raised
  THEN Reply(r.db, 500, "STORAGE_ERROR", trace \o r.events)
  ELSE Reply(r.db, 200, detail, trace \o r.events)

BanBranch(db, user_action, current_user, commitOk, trace) ==
  IF BanPermitted(db.roles[current_user])
  THEN IF db.is_active[user_action]
       THEN IF SameUser(user_action, current_user)
            THEN Reply(db, 200, "YOU_CANT_BAN_YOURSELF", trace)
            ELSE AfterRepository(ban_user(db, Email(user_action), commitOk),
                                 "USER_HAS_BEEN_BANNED", trace)
       ELSE Reply(db, 400, "USER_HAS_ALREADY_BANNED", trace)
  ELSE Reply(db, 401, "YOU_DONT_HAVE_PERMISSION_TO_BAN_USERS", trace)

ActivateBranch(db, user_action, current_user, commitOk, trace) ==
  IF ActivatePermitted(db.roles[current_user])
  THEN IF ~ db.is_active[user_action]
       THEN AfterRepository(activate_user(db, Email(user_action), commitOk),
                            "USER_HAS_BEEN_ACTIVATED", trace)
       ELSE Reply(db, 400, "USER_ALREADY_ACTIVATED", trace)
  ELSE Reply(db, 401, "YOU_DONT_HAVE_PERMISSION_FOR_ACTIVATE_USERS", trace)

ChangeRoleBranch(db, user_action, current_user, role, commitOk, trace) ==
  IF ChangeRolePermitted(db.roles[current_user])
  THEN IF role = NoneRole
       THEN Reply(db, 400, "NEW_ROLE_MUST_BE_SPECIFIED_FOR_CHANGING_ROLE", trace)
       ELSE AfterRepository(change_role(db, Email(user_action), role, commitOk),
                            "USERS_ROLE_HAS_BEEN_CHANGED_TO", trace)
  ELSE Reply(db, 401, "YOU_DONT_HAVE_PERMISSION_FOR_CHANGE_USER_ROLES", trace)

manage_user_guard_first(db, username, action, roleq, current_user, cacheOk, commitOk) ==
  LET user_action == get_user_username(db, username)
      role == BindRole(roleq)
  IN IF user_action = None
     THEN Reply(db, 404, "USER_NOT_FOUND", <<>>)
     ELSE IF SameUser(user_action, current_user)
     THEN Reply(db, 200, "YOU_CANT_BAN_YOURSELF", <<>>)
     ELSE
       LET key == key_to_clear(Email(user_action))
       IN IF ~ cacheOk
          THEN Reply(db, 500, "CACHE_ERROR", <<[ev |-> "cache_delete_failed", key |-> key]>>)
          ELSE
            LET trace == <<[ev |-> "cache_delete", key |-> key]>>
            IN CASE action = "ban" ->
                      BanBranch(db, user_action, current_user, commitOk, trace)
                 [] action = "activate" ->
                      ActivateBranch(db, user_action, current_user, commitOk, trace)
                 [] action = "change_role" ->
                      ChangeRoleBranch(db, user_action, current_user, role, commitOk, trace)
                 [] OTHER ->
                      Reply(db, 400, "INVALID_ACTION_SPECIFIED", trace)

manage_user(db, username, action, roleq, current_user, cacheOk, commitOk) ==
  LET user_action == get_user_username(db, username)
      role == BindRole(roleq)
  IN IF user_action = None
     THEN Reply(db, 404, "USER_NOT_FOUND", <<>>)
     ELSE
       LET key == key_to_clear(Email(user_action))
       IN IF ~ cacheOk
          THEN Reply(db, 500, "CACHE_ERROR", <<[ev |-> "cache_delete_failed", key |-> key]>>)
          ELSE
            LET trace == <<[ev |-> "cache_delete", key |-> key]>>
            IN IF SameUser(user_action, current_user)
               THEN Reply(db, 200, "YOU_CANT_BAN_YOURSELF", trace)
               ELSE CASE action = "ban" ->
                           BanBranch(db, user_action, current_user, commitOk, trace)
                      [] action = "activate" ->
                           ActivateBranch(db, user_action, current_user, commitOk, trace)
                      [] action = "change_role" ->
                           ChangeRoleBranch(db, user_action, current_user, role, commitOk, trace)
                      [] OTHER ->
                           Reply(db, 400, "INVALID_ACTION_SPECIFIED", trace)

\* ------------------------------------------------- repository: create_user
\* email and username are unique columns of the user table
UniqueIdentity(db, u) == u \notin db.registered

\* column defaults of a new User row
DefaultRole == "user"

DefaultIsActive == TRUE

DefaultConfirmed == FALSE

DefaultRefreshToken == NoneToken

create_user(db, u) ==
  LET existing_user == IF db.registered = {} THEN None
                       ELSE CHOOSE e \in db.registered : TRUE
  IN [db EXCEPT !.registered = @ \cup {u},
                !.roles[u] = IF existing_user = None THEN "admin" ELSE DefaultRole,
                !.is_active[u] = DefaultIsActive]

\* ---------------------------------------------------------------- actions
\* a request that has not been sent yet
IdleReq ==
  [pc |-> "idle", actor |-> None, target |-> None, status |-> 0,
   detail |-> "", raced |-> FALSE]

\* the tag table before any request: no row, ids handed out from 1
NoTags == [rows |-> {}, next_id |-> 1]

Init ==
  /\ registered = {}
  /\ roles = [u \in UserIds |-> DefaultRole]
  /\ is_active = [u \in UserIds |-> DefaultIsActive]
  /\ confirmed = [u \in UserIds |-> DefaultConfirmed]
  /\ refresh_token = [u \in UserIds |-> DefaultRefreshToken]
  /\ last = NoRequest
  /\ reqs = [p \in ReqIds |-> IdleReq]
  /\ creqs = <<>>
  /\ invalid_tokens = [t \in Tokens |-> 0]
  /\ revoked = [called |-> {}, ok |-> {}]
  /\ ratings = [pr \in RaterIds \X PictureIds |-> <<>>]
  /\ rreqs = <<>>
  /\ tags = NoTags

CreateUser ==
  \E u \in UserIds :
    /\ UniqueIdentity(Db, u)
    /\ \E db2 \in {create_user(Db, u)} :
          /\ registered' = db2.registered
          /\ roles' = db2.roles
          /\ is_active' = db2.is_active
          /\ confirmed' = db2.confirmed
          /\ refresh_token' = db2.refresh_token
          /\ last' = [NoRequest EXCEPT !.op = "create_user", !.target = u,
                        !.post_active = db2.is_active[u],
                        !.post_roles = db2.roles[u], !.status = 200]
    /\ UNCHANGED <<reqs, creqs, tokenVars, ratingVars, tags>>

\* what a request can meet in its collaborators: both answer, the cache call
\* raises, or the commit raises (a request makes at most one commit, after
\* its only cache call)
Faults == {"none", "cache", "commit"}

\* the role parameter is read by change_role only; the other actions are
\* requested with and without it
RoleParams(action) ==
  IF action = "change_role" THEN Roles \cup {Omitted} ELSE {Omitted, "admin"}

ManageUser ==
  \E current_user \in registered, username \in Usernames, action \in Actions,
     fault \in Faults :
    \E roleq \in RoleParams(action) :
      \E r \in {manage_user(Db, username, action, roleq, current_user,
                           fault # "cache", fault # "commit")},
         t \in {get_user_username(Db, username)} :
         /\ registered' = r.db.registered
         /\ roles' = r.db.roles
         /\ is_active' = r.db.is_active
         /\ confirmed' = r.db.confirmed
         /\ refresh_token' = r.db.refresh_token
         /\ last' = [op |-> "manage_user", actor |-> current_user,
                     actor_roles |-> roles[current_user], target |-> t,
                     username |-> username, action |-> action, roleq |-> roleq,
                     pre_active |-> IF t = None THEN FALSE ELSE is_active[t],
                     pre_roles |-> IF t = None THEN "user" ELSE roles[t],
                     post_active |-> IF t = None THEN FALSE ELSE r.db.is_active[t],
                     post_roles |-> IF t = None THEN "user" ELSE r.db.roles[t],
                     status |-> r.status, detail |-> r.detail, trace |-> r.trace]
         /\ UNCHANGED <<reqs, creqs, tokenVars, ratingVars, tags>>

Next == CreateUser \/ ManageUser

Spec == Init /\ [][Next]_vars

\* ------------------------------------------- ban requests, await by await
\* manage_user with action = ban, from its entry to the call of ban_user:
\* the reply when the handler answers before that call, else the email it
\* hands to ban_user
manage_user_until_ban(db, username, current_user) ==
  LET user_action == get_user_username(db, username)
  IN IF user_action = None
     THEN [call |-> FALSE, target |-> None, status |-> 404, detail |-> "USER_NOT_FOUND"]
     ELSE IF SameUser(user_action, current_user)
     THEN [call |-> FALSE, target |-> user_action, status |-> 200,
           detail |-> "YOU_CANT_BAN_YOURSELF"]
     ELSE IF ~ BanPermitted(db.roles[current_user])
     THEN [call |-> FALSE, target |-> user_action, status |-> 401,
           detail |-> "YOU_DONT_HAVE_PERMISSION_TO_BAN_USERS"]
     ELSE IF ~ db.is_active[user_action]
     THEN [call |-> FALSE, target |-> user_action, status |-> 400,
           detail |-> "USER_HAS_ALREADY_BANNED"]
     ELSE [call |-> TRUE, target |-> user_action, status |-> 0, detail |-> ""]

\* the requests that passed the is_active check on `target` and have not
\* committed yet
InBanUser(target) ==
  {q \in ReqIds : reqs[q].pc = "in_ban_user" /\ reqs[q].target = target}

BanBegin ==
  \E p \in ReqIds, current_user \in registered, username \in Usernames :
    /\ reqs[p].pc = "idle"
    /\ \E b \in {manage_user_until_ban(Db, username, current_user)} :
         reqs' = [q \in ReqIds |->
                    IF q = p
                    THEN [pc |-> IF b.call THEN "in_ban_user" ELSE "done",
                          actor |-> current_user, target |-> b.target,
                          status |-> b.status, detail |-> b.detail,
                          raced |-> b.call /\ InBanUser(b.target) # {}]
                    ELSE IF b.call /\ q \in InBanUser(b.target)
                    THEN [reqs[q] EXCEPT !.raced = TRUE]
                    ELSE reqs[q]]
    /\ UNCHANGED <<userVars, last, creqs, tokenVars, ratingVars, tags>>

BanCommit ==
  \E p \in ReqIds :
    /\ reqs[p].pc = "in_ban_user"
    /\ \E r \in {AfterRepository(ban_user(Db, Email(reqs[p].target), TRUE),
                                 "USER_HAS_BEEN_BANNED", <<>>)} :
         /\ registered' = r.db.registered
         /\ roles' = r.db.roles
         /\ is_active' = r.db.is_active
         /\ confirmed' = r.db.confirmed
         /\ refresh_token' = r.db.refresh_token
         /\ reqs' = [reqs EXCEPT ![p].pc = "done", ![p].status = r.status,
                                 ![p].detail = r.detail]
    /\ UNCHANGED <<last, creqs, tokenVars, ratingVars, tags>>

NextConc == CreateUser \/ BanBegin \/ BanCommit

SpecConc == Init /\ [][NextConc]_vars

\* ------------------------------------------- create_user, await by await
\* existing_user = (await db.execute(select(User).limit(1))).scalar()
create_user_select(db) ==
  IF db.registered = {} THEN None ELSE CHOOSE e \in db.registered : TRUE

\* db.add(new_user); await db.commit() -- the role was decided by the row
\* read before; the unique email and username reject a second row of `u`
create_user_commit(db, u, existing_user) ==
  IF UniqueIdentity(db, u)
  THEN [db |-> [db EXCEPT !.registered = @ \cup {u},
                         !.roles[u] = IF existing_user = None THEN "admin"
                                      ELSE DefaultRole,
                         !.is_active[u] = DefaultIsActive],
        raised |-> FALSE]
  ELSE [db |-> db, raised |-> TRUE]

\* calls are numbered in the order they are made
CreateUserBegin ==
  \E u \in UserIds :
    /\ Len(creqs) < NumCreateCalls
    /\ UniqueIdentity(Db, u)
    /\ creqs' = Append(creqs, [pc |-> "in_commit", user |-> u,
                               existing_user |-> create_user_select(Db),
                               first |-> FALSE])
    /\ UNCHANGED <<userVars, last, reqs, tokenVars, ratingVars, tags>>

CreateUserCommit ==
  \E p \in DOMAIN creqs :
    /\ creqs[p].pc = "in_commit"
    /\ \E r \in {create_user_commit(Db, creqs[p].user, creqs[p].existing_user)} :
         /\ registered' = r.db.registered
         /\ roles' = r.db.roles
         /\ is_active' = r.db.is_active
         /\ confirmed' = r.db.confirmed
         /\ refresh_token' = r.db.refresh_token
         /\ creqs' = [creqs EXCEPT ![p].pc = IF r.raised THEN "raised" ELSE "created",
                                   ![p].first = ~ r.raised /\ registered = {}]
    /\ UNCHANGED <<last, reqs, tokenVars, ratingVars, tags>>

NextCreate == CreateUserBegin \/ CreateUserCommit

SpecCreate == Init /\ [][NextCreate]_vars

\* ------------------------------- repository: update_token, confirmed_email
\* the store answers, or the commit raises
TokenFaults == {"none", "commit"}

PyTruthyToken_not_none(value) == ~ value.isNone

\* Python's truth value of a `str | None`: None and "" are false
PyTruthyToken(value) == ~ value.isNone /\ value.chars # <<>>

\* if refresh_token: user.refresh_token = refresh_token; await db.commit()
\* -- a commit that raises is not caught: the stored row keeps its value
update_token(db, user, refresh_token_in, commitOk) ==
  IF PyTruthyToken(refresh_token_in)
  THEN IF commitOk
       THEN [db |-> [db EXCEPT !.refresh_token[user] = refresh_token_in],
             raised |-> FALSE, events |-> <<"commit">>]
       ELSE [db |-> db, raised |-> TRUE, events |-> <<"commit_failed">>]
  ELSE [db |-> db, raised |-> FALSE, events |-> <<>>]

\* user = get_user_by_email; if user: user.confirmed = True; commit
confirmed_email(db, email, commitOk) ==
  LET user == get_user_by_email(db, email)
  IN IF user # None
     THEN IF commitOk
          THEN [db |-> [db EXCEPT !.confirmed[user] = TRUE],
                raised |-> FALSE, events |-> <<"commit">>]
          ELSE [db |-> db, raised |-> TRUE, events |-> <<"commit_failed">>]
     ELSE [db |-> db, raised |-> FALSE, events |-> <<>>]

\* what a login, a refresh or a logout can hand to update_token
RefreshTokenInputs == {NoneToken, Str(<<>>)} \cup RefreshTokens

UpdateToken ==
  \E user \in registered, refresh_token_in \in RefreshTokenInputs,
     fault \in TokenFaults :
    \E r \in {update_token(Db, user, refresh_token_in, fault # "commit")} :
      /\ registered' = r.db.registered
      /\ roles' = r.db.roles
      /\ is_active' = r.db.is_active
      /\ confirmed' = r.db.confirmed
      /\ refresh_token' = r.db.refresh_token
      /\ last' = [op |-> "update_token", user |-> user,
                  refresh_token |-> refresh_token_in, raised |-> r.raised,
                  trace |-> r.events]
      /\ UNCHANGED <<reqs, creqs, tokenVars, ratingVars, tags>>

ConfirmedEmail ==
  \E u \in UserIds, fault \in TokenFaults :
    \E r \in {confirmed_email(Db, Email(u), fault # "commit")} :
      /\ registered' = r.db.registered
      /\ roles' = r.db.roles
      /\ is_active' = r.db.is_active
      /\ confirmed' = r.db.confirmed
      /\ refresh_token' = r.db.refresh_token
      /\ last' = [op |-> "confirmed_email", user |-> u,
                  refresh_token |-> NoneToken, raised |-> r.raised,
                  trace |-> r.events]
      /\ UNCHANGED <<reqs, creqs, tokenVars, ratingVars, tags>>

NextAuth == CreateUser \/ UpdateToken \/ ConfirmedEmail

SpecAuth == Init /\ [][NextAuth]_vars

\* ----------------------------------------------- repository: invalid tokens
\* InvalidToken.token is a unique column: a commit that would leave two rows
\* with one token is rejected by the store
TokenUnique(tab) == \A t \in DOMAIN tab : tab[t] <= 1

invalidate_token_no_insert(tab, token, commitOk) ==
  IF commitOk /\ TokenUnique([tab EXCEPT ![token] = @ + 1])
  THEN [tab |-> tab, raised |-> "", events |-> <<"commit", "refresh">>]
  ELSE [tab |-> tab,
        raised |-> IF commitOk THEN "IntegrityError" ELSE "StorageError",
        events |-> <<"commit_failed", "rollback">>]

invalidate_token_no_rollback(tab, token, commitOk) ==
  LET staged == [tab EXCEPT ![token] = @ + 1]
  IN IF commitOk /\ TokenUnique(staged)
     THEN [tab |-> staged, raised |-> "", events |-> <<"add", "commit", "refresh">>]
     ELSE [tab |-> staged,
           raised |-> IF commitOk THEN "IntegrityError" ELSE "StorageError",
           events |-> <<"add", "commit_failed">>]

invalidate_token_swallows(tab, token, commitOk) ==
  LET staged == [tab EXCEPT ![token] = @ + 1]
  IN IF commitOk /\ TokenUnique(staged)
     THEN [tab |-> staged, raised |-> "", events |-> <<"add", "commit", "refresh">>]
     ELSE [tab |-> tab, raised |-> "",
           events |-> <<"add", "commit_failed", "rollback">>]

\* db.add(invalid_token); commit; refresh -- except: rollback; raise e
invalidate_token(tab, token, commitOk) ==
  LET staged == [tab EXCEPT ![token] = @ + 1]
  IN IF commitOk /\ TokenUnique(staged)
     THEN [tab |-> staged, raised |-> "", events |-> <<"add", "commit", "refresh">>]
     ELSE [tab |-> tab,
           raised |-> IF commitOk THEN "IntegrityError" ELSE "StorageError",
           events |-> <<"add", "commit_failed", "rollback">>]

is_validate_token_any_row(tab, token) ==
  IF \A t \in DOMAIN tab : tab[t] = 0
  THEN [result |-> FALSE, raised |-> ""]
  ELSE [result |-> TRUE, raised |-> ""]

\* select ... filter(InvalidToken.token == token); scalar_one_or_none()
is_validate_token(tab, token) ==
  IF tab[token] = 0 THEN [result |-> FALSE, raised |-> ""]
  ELSE IF tab[token] = 1 THEN [result |-> TRUE, raised |-> ""]
  ELSE [result |-> FALSE, raised |-> "MultipleResultsFound"]

InvalidateToken ==
  \E token \in Tokens, fault \in TokenFaults :
    \E r \in {invalidate_token(invalid_tokens, token, fault # "commit")} :
      /\ invalid_tokens' = r.tab
      /\ revoked' = [called |-> revoked.called \cup {token},
                     ok |-> IF r.raised = "" THEN revoked.ok \cup {token}
                            ELSE revoked.ok]
      /\ last' = [op |-> "invalidate_token", token |-> token, fault |-> fault,
                  pre_rows |-> invalid_tokens[token], raised |-> r.raised,
                  result |-> FALSE, trace |-> r.events]
      /\ UNCHANGED <<userVars, reqs, creqs, ratingVars, tags>>

IsValidateToken ==
  \E token \in Tokens :
    \E r \in {is_validate_token(invalid_tokens, token)} :
      /\ last' = [op |-> "is_validate_token", token |-> token, fault |-> "none",
                  pre_rows |-> invalid_tokens[token], raised |-> r.raised,
                  result |-> r.result, trace |-> <<>>]
      /\ UNCHANGED <<userVars, reqs, creqs, tokenVars, ratingVars, tags>>

NextTokens == InvalidateToken \/ IsValidateToken

SpecTokens == Init /\ [][NextTokens]_vars

\* ---------------------------------------------------------- routes: rating
MinRating == 1

MaxRating == 5

\* the values a request can carry in its `rating` parameter: the range and
\* two values on each side of it
RatingInputs == (MinRating - 2)..(MaxRating + 2)

RatingInRange_exclusive(rating) == MinRating <= rating /\ rating < MaxRating

\* 1 <= rating <= 5
RatingInRange(rating) == MinRating <= rating /\ rating <= MaxRating

\* repository_rating.create_picture_rating: Conflict when the rater already
\* has a Rating on the picture, else one new row is committed
repository_create_picture_rating(tab, picture_id, rating, user, commitOk) ==
  IF tab[<<user, picture_id>>] # <<>>
  THEN [tab |-> tab, status |-> 409, detail |-> "CONFLICT", events |-> <<"select">>]
  ELSE IF commitOk
  THEN [tab |-> [tab EXCEPT ![<<user, picture_id>>] = Append(@, rating)],
        status |-> 200, detail |-> "", events |-> <<"select", "add", "commit">>]
  ELSE [tab |-> tab, status |-> 500, detail |-> "STORAGE_ERROR",
        events |-> <<"select", "add", "commit_failed">>]

create_picture_rating(tab, picture_id, rating, current_user, commitOk) ==
  IF ~ RatingInRange(rating)
  THEN [tab |-> tab, status |-> 400, detail |-> "Rating must be between 1 and 5",
        trace |-> <<>>]
  ELSE LET r == repository_create_picture_rating(tab, picture_id, rating,
                                                 current_user, commitOk)
       IN IF r.status = 200
          THEN [tab |-> r.tab, status |-> 200, detail |-> "Rating successfully added",
                trace |-> r.events]
          ELSE [tab |-> r.tab, status |-> r.status, detail |-> r.detail,
                trace |-> r.events]

\* repository_rating.remove_rating: the Rating of the pair is deleted and
\* returned, None when the pair has none
repository_remove_rating(tab, picture_id, user_id, commitOk) ==
  IF tab[<<user_id, picture_id>>] = <<>>
  THEN [tab |-> tab, found |-> FALSE, raised |-> FALSE, events |-> <<"select">>]
  ELSE IF commitOk
  THEN [tab |-> [tab EXCEPT ![<<user_id, picture_id>>] = Tail(@)],
        found |-> TRUE, raised |-> FALSE, events |-> <<"select", "delete", "commit">>]
  ELSE [tab |-> tab, found |-> FALSE, raised |-> TRUE,
        events |-> <<"select", "delete", "commit_failed">>]

remove_photo_rating_no_check(tab, picture_id, user_id, commitOk) ==
  LET r == repository_remove_rating(tab, picture_id, user_id, commitOk)
  IN IF r.raised
     THEN [tab |-> r.tab, status |-> 500, detail |-> "STORAGE_ERROR", trace |-> r.events]
     ELSE [tab |-> r.tab, status |-> 204, detail |-> "", trace |-> r.events]

\* if not deleted_rating: raise HTTPException(400, "Unable to delete rating")
remove_photo_rating(tab, picture_id, user_id, commitOk) ==
  LET r == repository_remove_rating(tab, picture_id, user_id, commitOk)
  IN IF r.raised
     THEN [tab |-> r.tab, status |-> 500, detail |-> "STORAGE_ERROR", trace |-> r.events]
     ELSE IF ~ r.found
     THEN [tab |-> r.tab, status |-> 400, detail |-> "Unable to delete rating",
           trace |-> r.events]
     ELSE [tab |-> r.tab, status |-> 204, detail |-> "", trace |-> r.events]

\* a picture id that no picture has
MissingPicture == NumPictures + 1

RECURSIVE SumSeq(_)
SumSeq(s) == IF s = <<>> THEN 0 ELSE Head(s) + SumSeq(Tail(s))

\* the rating values stored for a picture, rater by rater
RECURSIVE PictureRows(_, _, _)
PictureRows(tab, picture_id, n) ==
  IF n = 0 THEN <<>>
  ELSE PictureRows(tab, picture_id, n - 1) \o tab[<<n, picture_id>>]

\* the average of no rating
Null == <<>>

\* sum / count, kept as the pair of its terms
Mean(rows) == IF rows = <<>> THEN Null ELSE <<SumSeq(rows), Len(rows)>>

\* repository_rating.picture_ratings: None when the picture does not exist,
\* else the count and the arithmetic mean of its ratings
repository_picture_ratings(tab, picture_id) ==
  IF picture_id \notin PictureIds
  THEN [none |-> TRUE, count |-> 0, average |-> Null]
  ELSE LET rows == PictureRows(tab, picture_id, NumRaters)
       IN [none |-> FALSE, count |-> Len(rows), average |-> Mean(rows)]

PyTruthy_nonzero(picture) == ~ picture.none /\ picture.count # 0

\* Python's truth value of the repository's result: None is false, a
\* result object is true whatever it holds
PyTruthy(picture) == ~ picture.none

picture_ratings(tab, picture_id) ==
  LET picture == repository_picture_ratings(tab, picture_id)
  IN IF ~ PyTruthy(picture)
     THEN [status |-> 404, detail |-> "Picture not found!", count |-> 0,
           average |-> Null]
     ELSE [status |-> 200, detail |-> "", count |-> picture.count,
           average |-> picture.average]

\* the store answers, or the commit raises
RatingFaults == {"none", "commit"}

CreatePictureRating ==
  \E picture_id \in PictureIds, rating \in RatingInputs, current_user \in RaterIds,
     fault \in RatingFaults :
    \E r \in {create_picture_rating(ratings, picture_id, rating, current_user,
                                    fault # "commit")} :
      /\ ratings' = r.tab
      /\ last' = [op |-> "create_picture_rating", picture_id |-> picture_id,
                  user_id |-> current_user, rating |-> rating, fault |-> fault,
                  pre_rows |-> Len(ratings[<<current_user, picture_id>>]),
                  status |-> r.status, detail |-> r.detail, trace |-> r.trace]
      /\ UNCHANGED <<userVars, reqs, creqs, tokenVars, rreqs, tags>>

RemovePhotoRating ==
  \E picture_id \in PictureIds, user_id \in RaterIds, fault \in RatingFaults :
    \E r \in {remove_photo_rating(ratings, picture_id, user_id, fault # "commit")} :
      /\ ratings' = r.tab
      /\ last' = [op |-> "remove_photo_rating", picture_id |-> picture_id,
                  user_id |-> user_id, rating |-> 0, fault |-> fault,
                  pre_rows |-> Len(ratings[<<user_id, picture_id>>]),
                  status |-> r.status, detail |-> r.detail, trace |-> r.trace]
      /\ UNCHANGED <<userVars, reqs, creqs, tokenVars, rreqs, tags>>

PictureRatings ==
  \E picture_id \in PictureIds \cup {MissingPicture} :
    \E r \in {picture_ratings(ratings, picture_id)} :
      /\ last' = [op |-> "picture_ratings", picture_id |-> picture_id,
                  user_id |-> 0, rating |-> 0, fault |-> "none", pre_rows |-> 0,
                  status |-> r.status, detail |-> r.detail, trace |-> <<"select">>,
                  count |-> r.count, average |-> r.average]
      /\ UNCHANGED <<userVars, reqs, creqs, tokenVars, ratingVars, tags>>

NextRatings == CreatePictureRating \/ RemovePhotoRating \/ PictureRatings

SpecRatings == Init /\ [][NextRatings]_vars

\* ------------------------------------ rating requests, await by await
\* the rating values of the interleaved requests: both ends of the range
ConcRatingInputs == {MinRating, MaxRating}

RatingUnique_none(tab) == TRUE

\* Rating has at most one row per (user_id, picture_id): a commit that would
\* leave two is rejected by the store
RatingUnique(tab) == \A pr \in DOMAIN tab : Len(tab[pr]) <= 1

\* create_picture_rating from its entry to the commit of the new row: the
\* reply when the handler answers before the commit (range check, existence
\* check of the repository), else the call goes on to the commit
create_picture_rating_until_commit(tab, picture_id, rating, current_user) ==
  IF ~ RatingInRange(rating)
  THEN [call |-> FALSE, status |-> 400, detail |-> "Rating must be between 1 and 5"]
  ELSE IF tab[<<current_user, picture_id>>] # <<>>
  THEN [call |-> FALSE, status |-> 409, detail |-> "CONFLICT"]
  ELSE [call |-> TRUE, status |-> 0, detail |-> ""]

\* db.add(rating); commit -- a commit the store rejects is rolled back and
\* reported as Conflict
create_picture_rating_commit(tab, picture_id, rating, current_user) ==
  LET staged == [tab EXCEPT ![<<current_user, picture_id>>] = Append(@, rating)]
  IN IF RatingUnique(staged)
     THEN [tab |-> staged, status |-> 200, detail |-> "Rating successfully added"]
     ELSE [tab |-> tab, status |-> 409, detail |-> "CONFLICT"]

\* requests are numbered in the order they arrive
RatingBegin ==
  \E picture_id \in PictureIds, rating \in ConcRatingInputs, current_user \in RaterIds :
    /\ Len(rreqs) < NumRequests
    /\ \E b \in {create_picture_rating_until_commit(ratings, picture_id, rating,
                                                    current_user)} :
         rreqs' = Append(rreqs,
                         [pc |-> IF b.call THEN "in_create" ELSE "done",
                          picture_id |-> picture_id, user_id |-> current_user,
                          rating |-> rating, status |-> b.status, detail |-> b.detail,
                          had |-> ratings[<<current_user, picture_id>>] # <<>>,
                          late |-> FALSE])
    /\ UNCHANGED <<userVars, last, reqs, creqs, tokenVars, ratings, tags>>

RatingCommit ==
  \E p \in DOMAIN rreqs :
    /\ rreqs[p].pc = "in_create"
    /\ \E r \in {create_picture_rating_commit(ratings, rreqs[p].picture_id,
                                              rreqs[p].rating, rreqs[p].user_id)} :
         /\ ratings' = r.tab
         /\ rreqs' = [rreqs EXCEPT
                        ![p].pc = "done", ![p].status = r.status,
                        ![p].detail = r.detail,
                        ![p].had = ratings[<<rreqs[p].user_id, rreqs[p].picture_id>>] # <<>>,
                        ![p].late = TRUE]
    /\ UNCHANGED <<userVars, last, reqs, creqs, tokenVars, tags>>

NextRatingsConc == RatingBegin \/ RatingCommit \/ RemovePhotoRating

SpecRatingsConc == Init /\ [][NextRatingsConc]_vars

\* ------------------------------------------------------------ routes: tags
\* Python's None, where a Tag row is expected
NoTag == [id |-> 0, tagname |-> 0]

\* repository_tags.get_tag_by_id
get_tag_by_id(tab, tag_id) ==
  IF \E row \in tab.rows : row.id = tag_id
  THEN CHOOSE row \in tab.rows : row.id = tag_id
  ELSE NoTag

\* repository_tags.get_tag_by_tagname
get_tag_by_tagname(tab, tagname) ==
  IF \E row \in tab.rows : row.tagname = tagname
  THEN CHOOSE row \in tab.rows : row.tagname = tagname
  ELSE NoTag

\* repository_tags.create_tag: one new row with the next id
repository_create_tag(tab, tagname, commitOk) ==
  LET tag == [id |-> tab.next_id, tagname |-> tagname]
  IN IF commitOk
     THEN [tab |-> [rows |-> tab.rows \cup {tag}, next_id |-> tab.next_id + 1],
           tag |-> tag, raised |-> FALSE, events |-> <<"add", "commit">>]
     ELSE [tab |-> tab, tag |-> NoTag, raised |-> TRUE,
           events |-> <<"add", "commit_failed">>]

\* repository_tags.update_tag: the row of tag_id takes the new tagname
repository_update_tag(tab, tag_id, tagname, commitOk) ==
  LET tag == [id |-> tag_id, tagname |-> tagname]
  IN IF commitOk
     THEN [tab |-> [tab EXCEPT !.rows = {row \in @ : row.id # tag_id} \cup {tag}],
           tag |-> tag, raised |-> FALSE, events |-> <<"commit">>]
     ELSE [tab |-> tab, tag |-> NoTag, raised |-> TRUE, events |-> <<"commit_failed">>]

\* repository_tags.remove_tag: the row of tag_id is deleted
remove_tag(tab, tag_id, commitOk) ==
  IF commitOk
  THEN [tab |-> [tab EXCEPT !.rows = {row \in @ : row.id # tag_id}],
        tag |-> get_tag_by_id(tab, tag_id), raised |-> FALSE,
        events |-> <<"delete", "commit">>]
  ELSE [tab |-> tab, tag |-> NoTag, raised |-> TRUE,
        events |-> <<"delete", "commit_failed">>]

TagReply(tab, status, detail, tag, trace) ==
  [tab |-> tab, status |-> status, detail |-> detail, tag |-> tag, trace |-> trace]

\* the reply after a repository call that commits
AfterTagRepository(r, status, trace) ==
  IF r.raised
  THEN TagReply(r.tab, 500, "STORAGE_ERROR", NoTag, trace \o r.events)
  ELSE TagReply(r.tab, status, "", r.tag, trace \o r.events)

create_tag_always_inserts(tab, tagname, commitOk) ==
  AfterTagRepository(repository_create_tag(tab, tagname, commitOk), 201, <<>>)

create_tag(tab, tagname, commitOk) ==
  LET exist_tag == get_tag_by_tagname(tab, tagname)
  IN IF exist_tag # NoTag
     THEN TagReply(tab, 201, "", exist_tag, <<"select">>)
     ELSE AfterTagRepository(repository_create_tag(tab, tagname, commitOk), 201,
                             <<"select">>)

update_tag(tab, tag_id, tagname, commitOk) ==
  LET tag == get_tag_by_id(tab, tag_id)
      exist_tag == get_tag_by_tagname(tab, tagname)
  IN IF tag # NoTag
     THEN IF exist_tag = NoTag
          THEN AfterTagRepository(repository_update_tag(tab, tag_id, tagname, commitOk),
                                  200, <<"select", "select">>)
          ELSE TagReply(tab, 409, "tagname already exist", NoTag, <<"select", "select">>)
     ELSE TagReply(tab, 404, "tagname not found", NoTag, <<"select", "select">>)

delete_tag(tab, tag_id, commitOk) ==
  LET tag == get_tag_by_id(tab, tag_id)
  IN IF tag = NoTag
     THEN TagReply(tab, 404, "tagname not found", NoTag, <<"select">>)
     ELSE AfterTagRepository(remove_tag(tab, tag_id, commitOk), 204, <<"select">>)

\* the store answers, or the commit raises
TagFaults == {"none", "commit"}

TagRequest(op, tag_id, tagname, fault, r) ==
  [op |-> op, tag_id |-> tag_id, tagname |-> tagname, fault |-> fault,
   status |-> r.status, detail |-> r.detail, tag |-> r.tag, trace |-> r.trace]

CreateTag ==
  \E tagname \in TagNames, fault \in TagFaults :
    /\ tags.next_id <= MaxTagId
    /\ \E r \in {create_tag(tags, tagname, fault # "commit")} :
         /\ tags' = r.tab
         /\ last' = TagRequest("create_tag", 0, tagname, fault, r)
    /\ UNCHANGED <<userVars, reqs, creqs, tokenVars, ratingVars>>

UpdateTag ==
  \E tag_id \in TagIds, tagname \in TagNames, fault \in TagFaults :
    \E r \in {update_tag(tags, tag_id, tagname, fault # "commit")} :
      /\ tags' = r.tab
      /\ last' = TagRequest("update_tag", tag_id, tagname, fault, r)
      /\ UNCHANGED <<userVars, reqs, creqs, tokenVars, ratingVars>>

DeleteTag ==
  \E tag_id \in TagIds, fault \in TagFaults :
    \E r \in {delete_tag(tags, tag_id, fault # "commit")} :
      /\ tags' = r.tab
      /\ last' = TagRequest("delete_tag", tag_id, 0, fault, r)
      /\ UNCHANGED <<userVars, reqs, creqs, tokenVars, ratingVars>>

NextTags == CreateTag \/ UpdateTag \/ DeleteTag

SpecTags == Init /\ [][NextTags]_vars

\* ----------------------------------------------------- reading a request
IsManage(action) == last.op = "manage_user" /\ last.action = action

TargetExists == last.target # None

SelfTarget == last.target = last.actor

\* redis_client.delete(key_to_clear) returned
CacheDeleted == last.trace # <<>> /\ last.trace[1].ev = "cache_delete"

\* neither the cache call nor the commit raised
CallsSucceeded == CacheDeleted /\ last.status # 500

Unchanged == last.post_active = last.pre_active /\ last.post_roles = last.pre_roles

NoOp == last.status = 200 /\ last.detail = "YOU_CANT_BAN_YOURSELF"

Forbidden == last.status = 401

Conflict ==
  /\ last.status = 400
  /\ last.detail \in {"USER_HAS_ALREADY_BANNED", "USER_ALREADY_ACTIVATED"}

BadRequest ==
  /\ last.status = 400
  /\ last.detail = "NEW_ROLE_MUST_BE_SPECIFIED_FOR_CHANGING_ROLE"

\* ------------------------------------------------------------------ claims
\* C1: a ban by an admin or a moderator actor on an Active target that is not
\* the actor, with the cache and the store answering, ends with the target
\* Banned; a moderator succeeds exactly as an admin does.
C1_BanByAdminOrModerator ==
  (/\ IsManage("ban") /\ TargetExists /\ ~ SelfTarget
   /\ last.actor_roles \in {"admin", "moderator"}
   /\ last.pre_active /\ CallsSucceeded)
  => (last.status = 200 /\ ~ last.post_active)

\* C2: a ban by a permitted actor (admin or moderator) on a target that is
\* already Banned and is not the actor returns Conflict and leaves the
\* target's is_active and role unchanged.
C2_BanOnBannedIsConflict ==
  (/\ IsManage("ban") /\ TargetExists /\ ~ SelfTarget
   /\ last.actor_roles \in {"admin", "moderator"}
   /\ ~ last.pre_active /\ CacheDeleted)
  => (Conflict /\ Unchanged)

\* C3: a ban whose target is the actor returns the no-op result and leaves
\* the actor's is_active and role unchanged, whatever the actor's role and
\* whether the actor is Active or Banned (the cache call having returned).
C3_SelfBanIsNoOp ==
  (IsManage("ban") /\ TargetExists /\ SelfTarget)
  => (Unchanged /\ (CacheDeleted => NoOp))

\* a Banned moderator asked to ban themself and got the no-op result
C3_Witness ==
  /\ IsManage("ban") /\ SelfTarget /\ NoOp
  /\ last.actor_roles = "moderator" /\ ~ last.pre_active /\ ~ last.post_active

\* C4 (as stated): a change_role by a non-admin actor returns Forbidden and
\* leaves the target's role unchanged, for every existing target and every
\* requested role.
C4_Original ==
  (/\ IsManage("change_role") /\ TargetExists
   /\ last.actor_roles # "admin" /\ CacheDeleted)
  => (Forbidden /\ last.post_roles = last.pre_roles)

\* C4 (amended): a change_role by a non-admin actor never changes the
\* target's role; it returns Forbidden when the target is another user and
\* the self-action no-op when the target is the actor.
C4_Amended ==
  (IsManage("change_role") /\ TargetExists /\ last.actor_roles # "admin")
  => /\ last.post_roles = last.pre_roles
     /\ CacheDeleted => IF SelfTarget THEN NoOp ELSE Forbidden

\* a moderator asked for another user's role to become admin and was refused
C4_Witness ==
  /\ IsManage("change_role") /\ TargetExists /\ ~ SelfTarget
  /\ last.actor_roles = "moderator" /\ last.roleq = "admin"
  /\ Forbidden /\ last.post_roles = last.pre_roles

\* C5 (as stated): an activate by an admin actor on a Banned target sets the
\* target Active.
C5_Original ==
  (/\ IsManage("activate") /\ TargetExists /\ last.actor_roles = "admin"
   /\ ~ last.pre_active /\ CallsSucceeded)
  => last.post_active

C5_ActivateSetsActive ==
  (/\ IsManage("activate") /\ TargetExists /\ ~ SelfTarget
   /\ last.actor_roles = "admin" /\ ~ last.pre_active /\ CallsSucceeded)
  => (last.status = 200 /\ last.detail = "USER_HAS_BEEN_ACTIVATED" /\ last.post_active)

C5_BanThenActivate ==
  (/\ IsManage("ban") /\ last.detail = "USER_HAS_BEEN_BANNED"
   /\ (IsManage("activate"))' /\ last'.target = last.target
   /\ last'.actor_roles = "admin" /\ last'.actor # last'.target
   /\ (CallsSucceeded)')
  => (last'.post_active = last.pre_active /\ is_active'[last.target] = last.pre_active)

\* C5 (amended): an activate by an admin actor on a Banned target other than
\* the actor sets the target Active; a ban followed by an activate of the
\* same target by an admin other than the target restores the target's
\* original is_active.  (An admin who targets themself gets the no-op.)
C5_Amended == [] C5_ActivateSetsActive /\ [][C5_BanThenActivate]_vars

\* an admin activated another user who was Banned
C5_Witness ==
  /\ IsManage("activate") /\ ~ SelfTarget /\ last.actor_roles = "admin"
  /\ ~ last.pre_active /\ last.post_active /\ is_active[last.target]
  /\ last.detail = "USER_HAS_BEEN_ACTIVATED"

\* C6 (as stated): a non-admin actor's activate gets Forbidden, an admin's
\* activate of an already Active target gets Conflict, and in both cases the
\* target's is_active is unchanged.
C6_Original ==
  (IsManage("activate") /\ TargetExists /\ CacheDeleted)
  => /\ last.actor_roles # "admin"
          => (Forbidden /\ last.post_active = last.pre_active)
     /\ (last.actor_roles = "admin" /\ last.pre_active)
          => (Conflict /\ last.post_active = last.pre_active)

\* C6 (amended): an activate changes is_active only when the actor is admin
\* and the target is Banned; otherwise is_active is unchanged and the result
\* is the no-op when the target is the actor, else Forbidden for a non-admin
\* actor, else Conflict.
C6_Amended ==
  (IsManage("activate") /\ TargetExists)
  => /\ last.post_active # last.pre_active
          => (last.actor_roles = "admin" /\ ~ last.pre_active)
     /\ (last.actor_roles # "admin" \/ last.pre_active)
          => /\ last.post_active = last.pre_active
             /\ CacheDeleted
                  => IF SelfTarget THEN NoOp
                     ELSE IF last.actor_roles # "admin" THEN Forbidden
                     ELSE Conflict

\* a moderator asked to activate another, Banned user and was refused
C6_Witness ==
  /\ IsManage("activate") /\ TargetExists /\ ~ SelfTarget
  /\ last.actor_roles = "moderator" /\ ~ last.pre_active
  /\ Forbidden /\ ~ last.post_active

\* C7: a change_role by an admin actor that supplies no role fails with
\* BadRequest and leaves the target's role unchanged.
C7_OmittedRoleIsBadRequest ==
  (/\ IsManage("change_role") /\ TargetExists /\ ~ SelfTarget
   /\ last.actor_roles = "admin" /\ last.roleq = Omitted /\ CallsSucceeded)
  => (BadRequest /\ last.post_roles = last.pre_roles)

\* C8: change_role never changes the role of a target whose role is admin
\* and never assigns the role admin.
C8_AdminRoleUntouched ==
  IsManage("change_role")
  => /\ last.pre_roles = "admin" => last.post_roles = "admin"
     /\ last.post_roles # last.pre_roles => last.post_roles # "admin"

C9_SelfRequestChangesNothing ==
  (last.op = "manage_user" /\ TargetExists /\ SelfTarget) => Unchanged

C9_ChangedByAnotherUser ==
  \A u \in registered :
    (roles'[u] # roles[u] \/ is_active'[u] # is_active[u])
    => (last'.op = "manage_user" /\ last'.target = u /\ last'.actor # u)

\* C9: for ban, activate and change_role alike, a request whose target is
\* the actor changes neither the actor's is_active nor the actor's role; the
\* is_active or role of a user changes only in a request of another user.
C9_NoSelfAlteration ==
  [] C9_SelfRequestChangesNothing /\ [][C9_ChangedByAnotherUser]_vars

\* a Banned admin asked to activate themself and stayed Banned
C9_Witness ==
  /\ IsManage("activate") /\ SelfTarget /\ last.actor_roles = "admin"
  /\ ~ last.pre_active /\ ~ is_active[last.actor] /\ roles[last.actor] = "admin"
  /\ NoOp

\* C10: within a moderation request every cache deletion comes after a
\* successful commit of the mutation; none is issued before the commit or
\* when the commit fails.
C10_CacheAfterCommit ==
  last.op = "manage_user"
  => \A i \in 1..Len(last.trace) :
       last.trace[i].ev \in {"cache_delete", "cache_delete_failed"}
       => \E j \in 1..(i - 1) : last.trace[j].ev = "commit"

\* the calls of redis_client.delete made by the request, in order
CacheDeletions ==
  SelectSeq(last.trace, LAMBDA e : e.ev \in {"cache_delete", "cache_delete_failed"})

\* the calls of db.commit made by the request, in order
CommitAttempts ==
  SelectSeq(last.trace, LAMBDA e : e.ev \in {"commit", "commit_failed"})

BanSucceeded ==
  IsManage("ban") /\ last.status = 200 /\ last.detail = "USER_HAS_BEEN_BANNED"

\* C11: a successful ban issues exactly one cache-invalidation call, and the
\* key it deletes is user:<email of the target>, not of the actor.
C11_OneDeletionOfTargetKey ==
  BanSucceeded
  => /\ Len(CacheDeletions) = 1
     /\ CacheDeletions[1].key = <<"user:", Email(last.target)>>
     /\ CacheDeletions[1].key # <<"user:", Email(last.actor)>>

\* an admin banned another user and the request deleted one cache key
C11_Witness ==
  /\ BanSucceeded /\ ~ is_active[last.target] /\ last.actor # last.target
  /\ Len(CacheDeletions) = 1

\* C12: when the cache-invalidation call of a moderation request fails, the
\* failure is not surfaced to the caller and the mutation is still applied
\* and committed (here: an admin's ban of another, Active user).
C12_CacheFailureSwallowed ==
  (/\ last.op = "manage_user" /\ TargetExists
   /\ Len(CacheDeletions) > 0 /\ CacheDeletions[1].ev = "cache_delete_failed")
  => /\ last.status # 500
     /\ (/\ last.action = "ban" /\ ~ SelfTarget
         /\ last.actor_roles = "admin" /\ last.pre_active)
        => ~ last.post_active

CommitFailed ==
  \E i \in 1..Len(last.trace) : last.trace[i].ev = "commit_failed"

\* C13: when the commit of ban_user or activate_user fails, the store is
\* rolled back (the target's stored is_active is what it was before the
\* request), the error reaches the caller, and the commit is not retried.
C13_FailedCommitRolledBack ==
  (last.op = "manage_user" /\ last.action \in {"ban", "activate"} /\ CommitFailed)
  => /\ last.post_active = last.pre_active
     /\ is_active[last.target] = last.pre_active
     /\ last.status = 500 /\ last.detail = "STORAGE_ERROR"
     /\ Len(CommitAttempts) = 1
     /\ last.trace[Len(last.trace)].ev = "rollback"

\* the commit of a ban failed and the target is still Active
C13_Witness ==
  /\ IsManage("ban") /\ CommitFailed /\ last.pre_active
  /\ is_active[last.target] /\ last.status = 500

SuccessWithMutation ==
  /\ last.status = 200
  /\ Len(CommitAttempts) = 1 /\ CommitAttempts[1].ev = "commit"
  /\ CASE last.action = "ban" ->
            last.detail = "USER_HAS_BEEN_BANNED" /\ ~ is_active[last.target]
       [] last.action = "activate" ->
            last.detail = "USER_HAS_BEEN_ACTIVATED" /\ is_active[last.target]
       [] last.action = "change_role" ->
            /\ last.detail = "USERS_ROLE_HAS_BEEN_CHANGED_TO"
            /\ roles[last.target] = (IF last.roleq = Omitted THEN "user" ELSE last.roleq)
       [] OTHER -> FALSE

OutcomesOfRequest ==
  {k \in {"success", "forbidden", "conflict", "noop"} :
     \/ k = "success" /\ SuccessWithMutation
     \/ k = "forbidden" /\ Forbidden
     \/ k = "conflict" /\ Conflict
     \/ k = "noop" /\ NoOp}

\* C14: a manage_user request on an existing target, the cache and the
\* store answering, ends in exactly one of success-with-mutation, Forbidden,
\* Conflict and the self-action no-op; a request that reports success has
\* applied its mutation to the target.
C14_OneTerminalOutcome ==
  (last.op = "manage_user" /\ TargetExists /\ CallsSucceeded)
  => /\ Cardinality(OutcomesOfRequest) = 1
     /\ (last.status = 200 /\ ~ NoOp) => SuccessWithMutation

\* a ban was reported as done and the target is Banned
C14_Witness ==
  /\ BanSucceeded /\ CallsSucceeded /\ OutcomesOfRequest = {"success"}
  /\ last.pre_active /\ ~ is_active[last.target]

\* C15: when two ban requests on the same Active target both pass the
\* is_active check before either commits, at most one of them reports
\* success, the other is reported as Conflict, and the target ends Banned.
C15_RacingBansOneSuccess ==
  \A p, q \in ReqIds :
    (/\ p # q /\ reqs[p].pc = "done" /\ reqs[q].pc = "done"
     /\ reqs[p].raced /\ reqs[q].raced /\ reqs[p].target = reqs[q].target)
    => /\ ~ is_active[reqs[p].target]
       /\ ~ (reqs[p].status = 200 /\ reqs[q].status = 200)
       /\ reqs[p].status = 200 => reqs[q].status = 400

C16_NeverRevokedReadsFalse ==
  \A t \in Tokens \ revoked.called :
    is_validate_token(invalid_tokens, t) = [result |-> FALSE, raised |-> ""]

C16_QueryIsPure ==
  last'.op = "is_validate_token"
  => /\ invalid_tokens' = invalid_tokens
     /\ last'.token \notin revoked.called
          => (last'.result = FALSE /\ last'.raised = "")

\* C16: for a token never passed to invalidate_token, is_validate_token
\* returns false in every reachable state, without raising and without
\* changing the table.
C16_NeverRevokedIsNotRevoked ==
  [] C16_NeverRevokedReadsFalse /\ [][C16_QueryIsPure]_vars

\* a token that was never revoked was looked up, while another one is in the
\* table, and the answer was false
C16_Witness ==
  /\ last.op = "is_validate_token" /\ last.token \notin revoked.called
  /\ last.result = FALSE /\ last.raised = ""
  /\ \E t \in Tokens : invalid_tokens[t] = 1

C17_RevokedReadsTrue ==
  \A t \in revoked.ok :
    is_validate_token(invalid_tokens, t) = [result |-> TRUE, raised |-> ""]

C17_NoRowRemoved ==
  \A t \in Tokens : invalid_tokens'[t] >= invalid_tokens[t]

\* C17: once invalidate_token(t) has succeeded, is_validate_token(t) is true
\* in that state and in every later one; no step removes a row of the table.
C17_RevokedStaysRevoked ==
  [] C17_RevokedReadsTrue /\ [][C17_NoRowRemoved]_vars

\* a token was revoked, other requests followed, and it still reads revoked
C17_Witness ==
  /\ last.op = "is_validate_token" /\ last.token \in revoked.ok
  /\ last.result = TRUE /\ Cardinality(revoked.called) > 1

C18_SecondRevoke ==
  (/\ last'.op = "invalidate_token" /\ last'.fault = "none"
   /\ last'.token \in revoked.ok)
  => /\ last'.raised = "IntegrityError"
     /\ invalid_tokens' = invalid_tokens
     /\ invalid_tokens'[last'.token] = 1
     /\ is_validate_token(invalid_tokens', last'.token).result = TRUE

\* C18: a further invalidate_token(t) of a token already revoked has the
\* same outcome every time (the store's uniqueness rejection, raised to the
\* caller), leaves the table holding t exactly once and is_validate_token(t)
\* true.
C18_SecondRevokeIsConflict == [][C18_SecondRevoke]_vars

\* a revoked token was revoked again and the call was rejected
C18_Witness ==
  /\ last.op = "invalidate_token" /\ last.pre_rows = 1
  /\ last.raised = "IntegrityError" /\ invalid_tokens[last.token] = 1

C19_FailedRevoke ==
  (last'.op = "invalidate_token" /\ last'.fault = "commit")
  => /\ last'.raised # ""
     /\ invalid_tokens' = invalid_tokens
     /\ last'.token \notin revoked.ok
          => is_validate_token(invalid_tokens', last'.token).result = FALSE

C20_RangeCheckedFirst ==
  last'.op = "create_picture_rating"
  => /\ (last'.rating < 1 \/ last'.rating > 5)
          => /\ last'.status = 400
             /\ last'.detail = "Rating must be between 1 and 5"
             /\ last'.trace = <<>>
             /\ ratings' = ratings
     /\ last'.rating \in {1, 5}
          => /\ last'.trace # <<>>
             /\ (last'.pre_rows = 0 /\ last'.fault = "none")
                  => /\ last'.status = 200
                     /\ ratings'[<<last'.user_id, last'.picture_id>>] = <<last'.rating>>

\* C20: a rating submission whose value is outside 1..5 is rejected with
\* BadRequest before any store interaction and the stored ratings are
\* unchanged; the values 1 and 5 pass the check and are stored.
C20_OutOfRangeRejected == [][C20_RangeCheckedFirst]_vars

\* the value 6 was submitted for a pair that has a rating, and was rejected
C20_Witness ==
  /\ last.op = "create_picture_rating" /\ last.rating = 6
  /\ last.status = 400 /\ last.trace = <<>>
  /\ Len(ratings[<<last.user_id, last.picture_id>>]) = 1

HasNoRating(picture_id) == \A u \in RaterIds : ratings[<<u, picture_id>>] = <<>>

RatingNotFound == last.status = 400 /\ last.detail = "Unable to delete rating"

C23_RemoveOfNoRating ==
  (last'.op = "remove_photo_rating" /\ ratings[<<last'.user_id, last'.picture_id>>] = <<>>)
  => (RatingNotFound' /\ ratings' = ratings)

C24_FirstUserOnlyIsAdmin ==
  /\ registered # {} => Cardinality({u \in registered : roles[u] = "admin"}) = 1
  /\ \A p \in DOMAIN creqs :
       creqs[p].pc = "created"
       => roles[creqs[p].user] = (IF creqs[p].first THEN "admin" ELSE DefaultRole)

C25_OneTransition ==
  last'.op = "manage_user"
  => /\ registered' = registered
     /\ \A u \in UserIds :
          u # last'.target => (roles'[u] = roles[u] /\ is_active'[u] = is_active[u])
     /\ confirmed' = confirmed /\ refresh_token' = refresh_token
     /\ ~ (roles' # roles /\ is_active' # is_active)
     /\ last'.action \in {"ban", "activate"} => roles' = roles
     /\ last'.action = "change_role" => is_active' = is_active

\* C25: a manage_user request changes at most one of is_active and role, of
\* its target only; every other user, and the target's confirmed flag and
\* refresh token (email and username are the identity of the row), stay as
\* they were; ban does not change the role, change_role does not change
\* is_active.
C25_AtMostOneTransition == [][C25_OneTransition]_vars

\* a moderator was banned: is_active changed, the role was kept
C25_Witness ==
  /\ BanSucceeded /\ last.pre_active /\ ~ is_active[last.target]
  /\ last.pre_roles = "moderator" /\ roles[last.target] = "moderator"

\* the username of the request is the username of no registered user
UnknownTarget == \A u \in registered : Username(u) # last.username

C26_UnknownTargetAnswer ==
  (last.op = "manage_user" /\ UnknownTarget)
  => (last.status = 404 /\ last.detail = "USER_NOT_FOUND" /\ last.trace = <<>>)

C26_UnknownTargetFrame ==
  (last'.op = "manage_user" /\ UnknownTarget') => UNCHANGED userVars

C27_CacheDeletedBeforeGuards ==
  (last.op = "manage_user" /\ TargetExists)
  => /\ Len(CacheDeletions) = 1
     /\ last.trace[1] = CacheDeletions[1]
     /\ CacheDeletions[1].key = key_to_clear(Email(last.target))
     /\ (Forbidden \/ Conflict \/ NoOp) => Unchanged

\* a self-targeted request ended as the no-op and deleted the actor's own key
C27_Witness ==
  /\ last.op = "manage_user" /\ TargetExists /\ SelfTarget /\ NoOp /\ Unchanged
  /\ Len(CacheDeletions) = 1 /\ last.trace = <<[ev |-> "cache_delete",
                                                 key |-> key_to_clear(Email(last.actor))]>>

C28_UpdateTokenWrites ==
  last'.op = "update_token"
  => /\ (last'.refresh_token = NoneToken \/ last'.refresh_token = Str(<<>>))
          => (refresh_token' = refresh_token /\ last'.trace = <<>>)
     /\ (last'.refresh_token \in RefreshTokens /\ ~ last'.raised)
          => refresh_token' = [refresh_token EXCEPT ![last'.user] = last'.refresh_token]

\* C28: update_token called with None or with the empty string makes no
\* write and no commit, and every stored refresh token keeps its value;
\* called with a non-empty token, its commit succeeding, the user's stored
\* refresh token is that token and no other user's token changes.
C28_FalsyTokenIsNotWritten == [][C28_UpdateTokenWrites]_vars

\* a user who holds a refresh token called update_token with None, as a
\* logout does, and still holds the token
C28_Witness ==
  /\ last.op = "update_token" /\ last.refresh_token = NoneToken
  /\ refresh_token[last.user] \in RefreshTokens

C29_UniqueTagnames ==
  \A r1, r2 \in tags.rows : r1.tagname = r2.tagname => r1 = r2

TagnameTaken(tagname) == \E row \in tags.rows : row.tagname = tagname

TagIdExists(tag_id) == \E row \in tags.rows : row.id = tag_id

C29_RoutesKeepUnique ==
  /\ (last'.op = "create_tag" /\ TagnameTaken(last'.tagname))
       => /\ tags' = tags
          /\ last'.tag \in tags.rows /\ last'.tag.tagname = last'.tagname
  /\ (last'.op = "update_tag" /\ ~ TagIdExists(last'.tag_id))
       => (last'.status = 404 /\ tags' = tags)
  /\ (last'.op = "update_tag" /\ TagIdExists(last'.tag_id)
       /\ TagnameTaken(last'.tagname))
       => (last'.status = 409 /\ tags' = tags)

\* C29: after any sequential run of create_tag, update_tag and delete_tag no
\* two stored tags have one tagname; create_tag with a tagname that a row
\* has returns that row and inserts nothing; update_tag to a tagname that a
\* row has is answered 409 and changes nothing, and 404 when the tag id does
\* not exist, whether or not the tagname is taken.
C29_NoDuplicateTagname == [] C29_UniqueTagnames /\ [][C29_RoutesKeepUnique]_vars

\* two tags are stored and create_tag was asked for the tagname of the first:
\* the first row was returned and no row was added
C29_Witness ==
  /\ last.op = "create_tag" /\ last.trace = <<"select">>
  /\ Cardinality(tags.rows) = 2 /\ last.tag \in tags.rows
  /\ last.tag.tagname = last.tagname /\ last.tag.id < tags.next_id - 1

====
